---- MODULE Spec2Model ----
(***************************************************************************)
(* Model of assets/maps/grassy/extrude_tileset.py: a tight grid of tiles   *)
(* is copied into a larger sheet, every tile surrounded by a ring of its   *)
(* own edge and corner pixels.                                             *)
(*                                                                         *)
(* An image is a record [w, h, px] with px a function from <<x, y>> to a   *)
(* pixel.  A pixel is a natural number; 0 is the transparent (0,0,0,0).    *)
(***************************************************************************)
EXTENDS Integers, Sequences, FiniteSets, TLC

\* ------------------------------------------------------------------ bounds
MaxTile == 3
MaxExtrude == 2
MaxBorder == 2
MaxSpacing == 1
MaxW == 2
MaxH == 6
MaxPermTiles == 3

VARIABLES
    TILE_W, TILE_H, EXTRUDE, BORDER, SPACING, \* the CONFIG block
    im,        \* the source image, converted to RGBA
    pc,        \* position of the script
    out,       \* the output image
    cx, cy,    \* loop variables of the tile loop
    done,      \* grid coordinates copy_tile has been called on
    dest,      \* done tile -> <<dx, dy>> computed by copy_tile
    clipped,   \* some paste reached outside the output image
    saved,     \* out.save has run
    printed    \* the Margin / Spacing printed on success

vars == <<TILE_W, TILE_H, EXTRUDE, BORDER, SPACING, im, pc, out, cx, cy,
          done, dest, clipped, saved, printed>>

\* ------------------------------------------------------------------ images
Transparent == 0

Coords(w, h) == (0 .. (w - 1)) \X (0 .. (h - 1))

NoImage == [w |-> 0, h |-> 0, px |-> [p \in {} |-> Transparent]]

\* Image.new("RGBA", (w, h), (0,0,0,0))
NewImage(w, h) == [w |-> w, h |-> h, px |-> [p \in Coords(w, h) |-> Transparent]]

InImage(img, x, y) == x >= 0 /\ x < img.w /\ y >= 0 /\ y < img.h

\* Image.getpixel
GetPixel(img, x, y) == img.px[<<x, y>>]

\* Image.crop((x0, y0, x1, y1)); pixels outside the image read as transparent
Crop(img, x0, y0, x1, y1) ==
    [w |-> x1 - x0, h |-> y1 - y0,
     px |-> [p \in Coords(x1 - x0, y1 - y0) |->
               IF InImage(img, x0 + p[1], y0 + p[2])
               THEN img.px[<<x0 + p[1], y0 + p[2]>>]
               ELSE Transparent]]

\* Image.resize((w, h), Image.NEAREST): output pixel centre mapped back to
\* the source, floor((x + 1/2) * img.w / w)
Resize(img, w, h) ==
    [w |-> w, h |-> h,
     px |-> [p \in Coords(w, h) |->
               img.px[<<((2 * p[1] + 1) * img.w) \div (2 * w),
                        ((2 * p[2] + 1) * img.h) \div (2 * h)>>]]]

\* The two source images tried for every size: one with all pixels distinct
\* and opaque, one two-coloured with transparent pixels in it.
SourceImages(w, h) ==
    { [w |-> w, h |-> h, px |-> [p \in Coords(w, h) |-> p[2] * w + p[1] + 1]],
      [w |-> w, h |-> h, px |-> [p \in Coords(w, h) |-> (p[1] + p[2]) % 2]] }

\* ---------------------------------------------------------------- geometry
W == im.w
H == im.h

cols == W \div TILE_W
rows == H \div TILE_H

\* the grid-fit check with the height test dropped
GridFitsWidthOnly == ~(cols * TILE_W # W)

\* if cols * TILE_W != W or rows * TILE_H != H: raise SystemExit(...)
GridFits == ~(cols * TILE_W # W \/ rows * TILE_H # H)

step == TILE_W + 2 * EXTRUDE + SPACING
out_w == BORDER * 2 + cols * step - SPACING
out_h == BORDER * 2 + rows * step - SPACING

AllTiles == (0 .. (cols - 1)) \X (0 .. (rows - 1))

\* ---------------------------------------------------------------- copy_tile
\* Destination origin of the core of tile (x, y)
Dx(x) == BORDER + x * step + EXTRUDE
Dy(y) == BORDER + y * step + EXTRUDE

\* tile = im.crop((sx, sy, sx+TILE_W, sy+TILE_H))
Tile(x, y) == Crop(im, x * TILE_W, y * TILE_H, x * TILE_W + TILE_W, y * TILE_H + TILE_H)

\* One write into the output: img placed with its top-left at (x, y).
\* strict = FALSE is Image.paste, which drops what falls outside the image;
\* strict = TRUE is Image.putpixel, which raises IndexError outside it.
Paste(img, x, y) == [x |-> x, y |-> y, img |-> img, strict |-> FALSE]

PutPixel(x, y, v) ==
    [x |-> x, y |-> y, strict |-> TRUE,
     img |-> [w |-> 1, h |-> 1, px |-> [p \in Coords(1, 1) |-> v]]]

\* The four edge strips L, R, T, B
EdgeL(t) == Resize(Crop(t, 0, 0, 1, TILE_H), EXTRUDE, TILE_H)
EdgeR(t) == Resize(Crop(t, TILE_W - 1, 0, TILE_W, TILE_H), EXTRUDE, TILE_H)
EdgeT(t) == Resize(Crop(t, 0, 0, TILE_W, 1), TILE_W, EXTRUDE)
EdgeB(t) == Resize(Crop(t, 0, TILE_H - 1, TILE_W, TILE_H), TILE_W, EXTRUDE)

\* The four putpixel calls of one iteration (ox, oy) of the corner loops
CornerWrites(t, dx, dy, ox, oy) ==
    << PutPixel(dx - 1 - ox, dy - 1 - oy, GetPixel(t, 0, 0)),
       PutPixel(dx + TILE_W + ox, dy - 1 - oy, GetPixel(t, TILE_W - 1, 0)),
       PutPixel(dx - 1 - ox, dy + TILE_H + oy, GetPixel(t, 0, TILE_H - 1)),
       PutPixel(dx + TILE_W + ox, dy + TILE_H + oy, GetPixel(t, TILE_W - 1, TILE_H - 1)) >>

\* for ox in range(EXTRUDE): for oy in range(EXTRUDE): ... from iteration n on,
\* n counting the iterations in the order the loops run them
RECURSIVE CornerLoop(_, _, _, _)
CornerLoop(t, dx, dy, n) ==
    IF n >= EXTRUDE * EXTRUDE THEN << >>
    ELSE CornerWrites(t, dx, dy, n \div EXTRUDE, n % EXTRUDE)
           \o CornerLoop(t, dx, dy, n + 1)

\* Every write copy_tile(x, y) makes, in program order
Writes(x, y) ==
    LET t == Tile(x, y)
        dx == Dx(x)
        dy == Dy(y)
    IN  << Paste(t, dx, dy),
           Paste(EdgeL(t), dx - EXTRUDE, dy),
           Paste(EdgeR(t), dx + TILE_W, dy),
           Paste(EdgeT(t), dx, dy - EXTRUDE),
           Paste(EdgeB(t), dx, dy + TILE_H) >>
        \o CornerLoop(t, dx, dy, 0)

\* Output coordinates a write targets
Targets(wr) == { <<wr.x + p[1], wr.y + p[2]>> : p \in Coords(wr.img.w, wr.img.h) }

\* (x, y) is one of the coordinates wr targets
Covers(wr, x, y) ==
    /\ x >= wr.x /\ x < wr.x + wr.img.w
    /\ y >= wr.y /\ y < wr.y + wr.img.h

\* wr targets a coordinate that is not a pixel of img
Outside(img, wr) ==
    \/ wr.x < 0 \/ wr.x + wr.img.w > img.w
    \/ wr.y < 0 \/ wr.y + wr.img.h > img.h

\* Index of the first putpixel that raises, Len + 1 when none does
Raises(img, ws) ==
    LET bad == { i \in 1 .. Len(ws) : ws[i].strict /\ Outside(img, ws[i]) }
    IN  IF bad = {} THEN Len(ws) + 1
        ELSE CHOOSE i \in bad : \A j \in bad : i <= j

\* The smallest rectangle holding every coordinate the writes ws target
Box(ws) ==
    LET I == 1 .. Len(ws)
        x0 == CHOOSE v \in { ws[i].x : i \in I } : \A i \in I : v <= ws[i].x
        y0 == CHOOSE v \in { ws[i].y : i \in I } : \A i \in I : v <= ws[i].y
        x1 == CHOOSE v \in { ws[i].x + ws[i].img.w : i \in I } :
                  \A i \in I : v >= ws[i].x + ws[i].img.w
        y1 == CHOOSE v \in { ws[i].y + ws[i].img.h : i \in I } :
                  \A i \in I : v >= ws[i].y + ws[i].img.h
    IN  [x |-> x0, y |-> y0, img |-> [w |-> x1 - x0, h |-> y1 - y0]]

\* The image after the writes ws[1 .. n] were made in order: a pixel holds
\* what the last write covering it put there.  box is Box(ws).
Apply(img, ws, n, box) ==
    [w |-> img.w, h |-> img.h,
     px |-> [p \in Coords(img.w, img.h) |->
               IF ~Covers(box, p[1], p[2]) THEN img.px[p]
               ELSE
               LET hit == { i \in 1 .. n : Covers(ws[i], p[1], p[2]) }
               IN  IF hit = {} THEN img.px[p]
                   ELSE LET i == CHOOSE k \in hit : \A j \in hit : j <= k
                        IN  ws[i].img.px[<<p[1] - ws[i].x, p[2] - ws[i].y>>]]]

\* copy_tile(x, y) run on image img: the image it leaves, whether it
\* returned (ok) or raised, and whether a paste was cut at the image's edge
CopyTile(img, x, y) ==
    LET ws == Writes(x, y)
        r  == Raises(img, ws)
    IN  [img  |-> Apply(img, ws, r - 1, Box(ws)),
         ok   |-> r > Len(ws),
         clip |-> \E i \in 1 .. (r - 1) : ~ws[i].strict /\ Outside(img, ws[i])]

\* ------------------------------------------------------------------ actions
Init ==
    /\ TILE_W \in 1 .. MaxTile
    /\ TILE_H \in 1 .. MaxTile
    /\ EXTRUDE \in 1 .. MaxExtrude
    /\ BORDER \in 0 .. MaxBorder
    /\ SPACING \in 0 .. MaxSpacing
    /\ \E w \in 1 .. MaxW, h \in 1 .. MaxH : im \in SourceImages(w, h)
    /\ pc = "start"
    /\ out = NoImage
    /\ cx = 0
    /\ cy = 0
    /\ done = {}
    /\ dest = [t \in {} |-> <<0, 0>>]
    /\ clipped = FALSE
    /\ saved = FALSE
    /\ printed = [Margin |-> 0, Spacing |-> 0]

config == <<TILE_W, TILE_H, EXTRUDE, BORDER, SPACING, im>>

\* raise SystemExit("Input is not a tight ... grid")
GridMismatch ==
    /\ pc = "start"
    /\ ~GridFits
    /\ pc' = "error"
    /\ UNCHANGED <<config, out, cx, cy, done, dest, clipped, saved, printed>>

\* out = Image.new("RGBA", (out_w, out_h), (0,0,0,0))
Allocate ==
    /\ pc = "start"
    /\ GridFits
    /\ out' = NewImage(out_w, out_h)
    /\ pc' = "loop"
    /\ UNCHANGED <<config, cx, cy, done, dest, clipped, saved, printed>>

\* One call copy_tile(x, y) from the tile loop
Call(x, y) ==
    LET r == CopyTile(out, x, y)
    IN  /\ out' = r.img
        /\ clipped' = (clipped \/ r.clip)
        /\ done' = done \cup {<<x, y>>}
        /\ dest' = [t \in DOMAIN dest \cup {<<x, y>>} |->
                      IF t = <<x, y>> THEN <<Dx(x), Dy(y)>> ELSE dest[t]]
        /\ pc' = IF ~r.ok THEN "crashed"
                 ELSE IF done' = AllTiles THEN "save" ELSE "loop"

\* for cy in range(rows): for cx in range(cols): copy_tile(cx, cy)
CopyNext ==
    /\ pc = "loop"
    /\ Call(cx, cy)
    /\ cx' = IF cx + 1 < cols THEN cx + 1 ELSE 0
    /\ cy' = IF cx + 1 < cols THEN cy ELSE cy + 1
    /\ UNCHANGED <<config, saved, printed>>

\* out.save(out_path) and the two print calls
Save ==
    /\ pc = "save"
    /\ saved' = TRUE
    /\ printed' = [Margin |-> BORDER + EXTRUDE, Spacing |-> 2 * EXTRUDE + SPACING]
    /\ pc' = "done"
    /\ UNCHANGED <<config, out, cx, cy, done, dest, clipped>>

Next == GridMismatch \/ Allocate \/ CopyNext \/ Save

Spec == Init /\ [][Next]_vars

\* The same run with the tiles taken in an arbitrary order instead of the
\* row-major order of the two for loops.
CopyAny ==
    /\ pc = "loop"
    /\ \E t \in AllTiles \ done :
          /\ Call(t[1], t[2])
          /\ cx' = t[1]
          /\ cy' = t[2]
    /\ UNCHANGED <<config, saved, printed>>

InitAnyOrder == Init /\ cols * rows <= MaxPermTiles

NextAnyOrder == GridMismatch \/ Allocate \/ CopyAny \/ Save

SpecAnyOrder == InitAnyOrder /\ [][NextAnyOrder]_vars

\* ------------------------------------------------------------- vocabulary
Tessellates == W % TILE_W = 0 /\ H % TILE_H = 0

\* Everything copy_tile(t) writes to, clipped or not
Footprint(t) ==
    LET ws == Writes(t[1], t[2])
    IN  UNION { Targets(ws[i]) : i \in 1 .. Len(ws) }

\* out.getpixel((x, y)) = v, false when (x, y) is not a pixel of out
OutIs(x, y, v) == InImage(out, x, y) /\ out.px[<<x, y>>] = v

\* pixel (i, j) of source tile t
Src(t, i, j) == im.px[<<t[1] * TILE_W + i, t[2] * TILE_H + j>>]

\* the output the row-major loop leaves after its first n calls
RECURSIVE RowMajor(_)
RowMajor(n) ==
    IF n = 0 THEN NewImage(out_w, out_h)
    ELSE CopyTile(RowMajor(n - 1), (n - 1) % cols, (n - 1) \div cols).img

InBorder(p) ==
    \/ p[1] < BORDER \/ p[1] >= out.w - BORDER
    \/ p[2] < BORDER \/ p[2] >= out.h - BORDER

\* between the extruded regions of two neighbouring tiles
InSpacing(p) ==
    /\ ~InBorder(p)
    /\ \/ (p[1] - BORDER) % step >= TILE_W + 2 * EXTRUDE
       \/ (p[2] - BORDER) % step >= TILE_H + 2 * EXTRUDE

Min(a, b) == IF a <= b THEN a ELSE b

\* ------------------------------------------------------------------ claims

\* C1: on a tessellating input the output image is
\* 2*border + cols*(tileW + 2*extrude + spacing) - spacing wide and
\* 2*border + rows*(tileH + 2*extrude + spacing) - spacing high.
C1_OutputSize ==
    (Tessellates /\ pc # "start") =>
        /\ out.w = 2 * BORDER + cols * (TILE_W + 2 * EXTRUDE + SPACING) - SPACING
        /\ out.h = 2 * BORDER + rows * (TILE_H + 2 * EXTRUDE + SPACING) - SPACING

\* C2: the rectangles written for two different tiles never share an
\* output pixel.
C2_TilesDisjoint ==
    \A t1 \in done, t2 \in done :
        t1 # t2 => Footprint(t1) \cap Footprint(t2) = {}

\* C3: when the source width is not a multiple of tileW or the height not a
\* multiple of tileH, the run goes from its start straight to the
\* grid-mismatch error: no output image is allocated, no tile is copied and
\* nothing is saved.
C3_NothingProduced ==
    ~Tessellates =>
        /\ pc \in {"start", "error"}
        /\ out = NoImage
        /\ done = {}
        /\ ~saved

C3_MismatchStep == ~Tessellates => pc' = "error"

C3_GridMismatch == [](C3_NothingProduced) /\ [][C3_MismatchStep]_vars

C3_Witness ==
    /\ pc = "error"
    /\ W % TILE_W = 0
    /\ H % TILE_H # 0

\* C4: after the run completes, the core of every tile is an exact copy of
\* the source tile: out(dx + i, dy + j) = source(cx*tileW + i, cy*tileH + j)
\* with (dx, dy) = (border + cx*step + extrude, border + cy*step + extrude).
C4_CoreExact ==
    pc = "done" =>
        \A t \in AllTiles, i \in 0 .. (TILE_W - 1), j \in 0 .. (TILE_H - 1) :
            OutIs(Dx(t[1]) + i, Dy(t[2]) + j, Src(t, i, j))

\* C5: after the run completes, each of the four edge strips of every tile
\* repeats the adjacent edge pixel of the tile, k = 0 .. extrude-1 pixels out.
C5_EdgesExact ==
    pc = "done" =>
        \A t \in AllTiles, k \in 0 .. (EXTRUDE - 1) :
            LET dx == Dx(t[1])
                dy == Dy(t[2])
            IN  /\ \A j \in 0 .. (TILE_H - 1) :
                      /\ OutIs(dx - 1 - k, dy + j, Src(t, 0, j))
                      /\ OutIs(dx + TILE_W + k, dy + j, Src(t, TILE_W - 1, j))
                /\ \A i \in 0 .. (TILE_W - 1) :
                      /\ OutIs(dx + i, dy - 1 - k, Src(t, i, 0))
                      /\ OutIs(dx + i, dy + TILE_H + k, Src(t, i, TILE_H - 1))

\* C6: after the run completes, every pixel of the extrude x extrude block
\* diagonally next to a corner of a tile's core holds that corner's pixel.
C6_CornersExact ==
    pc = "done" =>
        \A t \in AllTiles, a \in 0 .. (EXTRUDE - 1), b \in 0 .. (EXTRUDE - 1) :
            LET dx == Dx(t[1])
                dy == Dy(t[2])
            IN  /\ OutIs(dx - 1 - a, dy - 1 - b, Src(t, 0, 0))
                /\ OutIs(dx + TILE_W + a, dy - 1 - b, Src(t, TILE_W - 1, 0))
                /\ OutIs(dx - 1 - a, dy + TILE_H + b, Src(t, 0, TILE_H - 1))
                /\ OutIs(dx + TILE_W + a, dy + TILE_H + b, Src(t, TILE_W - 1, TILE_H - 1))

\* C7: after the run completes, every output pixel in the outer border
\* margin or in a spacing gap is still transparent.
C7_MarginsTransparent ==
    pc = "done" =>
        \A p \in Coords(out.w, out.h) :
            (InBorder(p) \/ InSpacing(p)) => out.px[p] = Transparent

\* C8: whatever the order in which copy_tile is run over the grid, the
\* final output is the one the row-major order gives.
C8_OrderIndependent ==
    pc = "done" => out = RowMajor(cols * rows)

\* C9: with extrude <= min(tileW, tileH), every write of copy_tile lands
\* inside the output image: no putpixel raises and no paste is cut.
C9_WritesInBounds ==
    EXTRUDE <= Min(TILE_W, TILE_H) => (pc # "crashed" /\ ~clipped)

\* C10: the printed Margin and Spacing locate every tile core: tile (cx, cy)
\* has its core's top-left pixel at
\* (Margin + cx*(tileW + Spacing), Margin + cy*(tileH + Spacing)).
C10_PrintedLocatesCores ==
    pc = "done" =>
        \A t \in AllTiles :
            dest[t] = << printed.Margin + t[1] * (TILE_W + printed.Spacing),
                         printed.Margin + t[2] * (TILE_H + printed.Spacing) >>

\* ------------------------------------------------------------ square tiles
\* step is computed from TILE_W alone and used for both axes, so the claims
\* C1, C2, C4 - C10 above hold of the code exactly when the vertical pitch
\* it uses is the right one.  With TILE_W = TILE_H they all hold.
SquareTiles == TILE_W = TILE_H

SquareTilesSound ==
    SquareTiles =>
        /\ C1_OutputSize
        /\ C2_TilesDisjoint
        /\ C4_CoreExact
        /\ C5_EdgesExact
        /\ C6_CornersExact
        /\ C7_MarginsTransparent
        /\ C9_WritesInBounds
        /\ C10_PrintedLocatesCores

SquareTilesOrderIndependent == SquareTiles => C8_OrderIndependent

====
